---- MODULE Spec2Model ----
(***************************************************************************)
(* BusTrackr+ : trip registry, GPS ingest, driver dashboard, passenger map. *)
(*                                                                         *)
(* The database (tables buses, routes, trips, gps_updates with their       *)
(* constraints and row-level-security policies) is the shared state; each  *)
(* driver dashboard session is a client whose async handlers are split at  *)
(* their awaits: the request acts on the database in one step and its      *)
(* response is applied to the component state in a later step.  The        *)
(* passenger's BusMap holds busLocations, fed by a realtime channel on      *)
(* gps_updates and by fetchBusLocations, both split at their awaits too.    *)
(***************************************************************************)
EXTENDS Integers, Sequences, FiniteSets, TLC

\* ---- bounds of the model ------------------------------------------------
MaxTrips == 2        \* rows of table trips
MaxSamples == 2      \* rows of table gps_updates
MaxClock == 2        \* last value of the wall clock
MaxInFlight == 2     \* requests and callbacks one session is waiting for
MaxChannels == 2     \* runs of the subscription effect of one BusMap
MaxTime == 10        \* seconds the interval timers measure

\* ---- universe -----------------------------------------------------------
Sessions == {"s1", "s2"}
Passengers == {"p1"}
Drivers == {"d1", "d2"}
BusIds == {"b1"}
RouteIds == {"r1", "r2"}
Null == 0
Period == 5          \* setInterval(..., 5000), in seconds
NoUser == "none"     \* auth.getUser() of a session that is not signed in
NoRoute == ""        \* useState<string>('') of selectedRoute
NoBus == ""          \* useState('') of selectedBus
Absent == -1         \* a coords attribute that is null or NaN

\* speed (m/s), heading (degrees) and accuracy (m) are in thousandths
Still == [speed |-> 0, heading |-> Absent, accuracy |-> 5000]

\* positions the positioning source may report, in whole degrees
Positions ==
    { [latitude |-> 40, longitude |-> -75] @@ Still,
      [latitude |-> 95, longitude |-> -75] @@ Still,
      [latitude |-> 40, longitude |-> 185] @@ Still,
      [latitude |-> 100, longitude |-> -75] @@ Still }

\* two positions along a route
Fixes ==
    { [latitude |-> 40, longitude |-> -75] @@ Still,
      [latitude |-> 41, longitude |-> -74] @@ Still }

\* readings of one place with and without speed, heading and accuracy
Readings ==
    { [latitude |-> 40, longitude |-> -75] @@ r :
        r \in { [speed |-> Absent, heading |-> Absent, accuracy |-> Absent],
                 Still,
                 [speed |-> 12340, heading |-> 90000, accuracy |-> 5000],
                 [speed |-> 12345, heading |-> 90000, accuracy |-> 5000],
                 [speed |-> 12340, heading |-> 90000, accuracy |-> 12000000] } }

TripStatus == {"active", "completed", "cancelled"}

VARIABLES
    \* database
    busActive,       \* buses.is_active
    routeActive,     \* routes.is_active
    trips,           \* table trips, in insertion order; a trip's id is its index
    gps_updates,     \* table gps_updates, in insertion order
    now,             \* wall clock (NOW() and new Date())
    \* driver dashboard, per session
    user,            \* auth.getUser() of the session
    buses,           \* useState buses: ids fetched by fetchData
    routes,          \* useState routes
    fetchPc,         \* position of fetchData
    activeTrip,      \* useState activeTrip: a trip id or Null
    gpsInterval,     \* TRUE while an interval timer is live
    gpsUpdateCount,  \* useState gpsUpdateCount
    checkPc,         \* position of the mount-time checkActiveTrip
    checkResp,       \* its response in flight: a trip id, or Null for error
    startResp,       \* responses of trips inserts in flight: id (Null = error) -> count
    endResp,         \* responses of trips updates in flight: "ok"/"error" -> count
    acquiring,       \* getCurrentPosition calls in flight: captured trip id -> count
    submitResp,      \* responses of gps_updates inserts in flight: "ok"/"error" -> count
    time,            \* seconds the interval timers have measured
    lastTick,        \* when the session's timer was set or last fired
    intervals,       \* setInterval timers of the session that are not cleared
    \* BusMap, per passenger
    busLocations,    \* useState busLocations: sequence of BusLocation
    channel,         \* the subscription effect's run: its number, 0 before the first
    joined,          \* rows of gps_updates when the channel was subscribed
    delivered,       \* last gps_updates row the channel has delivered
    handlers,        \* INSERT handler invocations awaiting their trip lookup
    fetches,         \* fetchBusLocations calls in flight
    locating,        \* TRUE while getUserLocation's getCurrentPosition is pending
    \* PassengerDashboard, per passenger
    selectedRoute,   \* useState selectedRoute: a route id or NoRoute
    activeBuses,     \* useState activeBuses: the trip_id values of the list
    busFetches,      \* responses of fetchActiveBuses in flight
    notified         \* the route's trips as of the last event of the trips channel

dbVars == <<busActive, routeActive, trips, gps_updates, now>>
refVars == <<buses, routes, fetchPc>>
tripVars == <<activeTrip, gpsInterval, gpsUpdateCount>>
reqVars == <<checkPc, checkResp, startResp, endResp>>
gpsVars == <<acquiring, submitResp>>
timerVars == <<time, lastTick, intervals>>
mapVars == <<busLocations, channel, joined, delivered, handlers, fetches, locating>>
paxVars == <<selectedRoute, activeBuses, busFetches, notified>>
vars == <<dbVars, user, refVars, tripVars, reqVars, gpsVars, timerVars, mapVars, paxVars>>

\* ---- helpers ------------------------------------------------------------
TripIds == 1..MaxTrips
Outcomes == {"ok", "error"}

BagAdd(bag, k) == [bag EXCEPT ![k] = @ + 1]
BagRemove(bag, k) == [bag EXCEPT ![k] = @ - 1]
RECURSIVE BagSize(_, _)
BagSize(bag, keys) ==
    IF keys = {} THEN 0
    ELSE LET k == CHOOSE x \in keys : TRUE
         IN bag[k] + BagSize(bag, keys \ {k})

\* requests and callbacks a session is waiting for
InFlight(s) ==
    BagSize(startResp[s], 0..MaxTrips) + BagSize(endResp[s], Outcomes)
    + BagSize(acquiring[s], TripIds) + BagSize(submitResp[s], Outcomes)
    + (IF checkPc[s] = "sent" THEN 1 ELSE 0)

Abs(x) == IF x < 0 THEN -x ELSE x

\* x || 0 of a coords attribute: null, NaN and 0 are falsy
OrZero(x) == IF x = Absent \/ x = 0 THEN 0 ELSE x

\* a NUMERIC(p, 2) column rounds to two decimals, half away from zero
Numeric2(x) == IF x < 0 THEN -(((-x + 5) \div 10) * 10) ELSE ((x + 5) \div 10) * 10

\* the payload of the gps_updates insert built from position.coords
Payload(t, coords) ==
    [trip_id |-> t, latitude |-> coords.latitude, longitude |-> coords.longitude,
     speed |-> OrZero(coords.speed), heading |-> OrZero(coords.heading),
     accuracy |-> OrZero(coords.accuracy), created_at |-> Null]

\* ---- database: tables, constraints, policies ------------------------------
\* rows of trips with status = 'active' and the given driver
ActiveTripsOf(d) ==
    {i \in 1..Len(trips) : trips[i].driver_id = d /\ trips[i].status = "active"}

\* CREATE TABLE public.trips: foreign keys and the status CHECK
TripsConstraintsOk(row) ==
    /\ row.bus_id \in BusIds
    /\ row.route_id \in RouteIds
    /\ row.driver_id \in Drivers
    /\ row.status \in TripStatus

\* policy "Drivers can create trips": WITH CHECK (auth.uid() = driver_id)
TripsInsertPolicy(uid, row) == uid = row.driver_id

\* policy "Drivers can update own trips": USING (auth.uid() = driver_id)
TripsUpdatePolicy(uid, row) == uid = row.driver_id

\* CREATE TABLE public.gps_updates: NUMERIC(10, 8) leaves two integer digits,
\* NUMERIC(11, 8) three; a value that does not fit is a numeric overflow error
\* NUMERIC(5, 2) leaves three integer digits, NUMERIC(6, 2) four
GpsConstraintsOk(row) ==
    /\ row.trip_id \in 1..Len(trips)
    /\ Abs(row.latitude) < 100
    /\ Abs(row.longitude) < 1000
    /\ Abs(Numeric2(row.speed)) < 1000 * 1000
    /\ Abs(Numeric2(row.heading)) < 1000 * 1000
    /\ Abs(Numeric2(row.accuracy)) < 10000 * 1000

\* the row as the table stores it: created_at is DEFAULT NOW()
GpsStored(row) ==
    [row EXCEPT !.created_at = now, !.speed = Numeric2(@), !.heading = Numeric2(@),
                !.accuracy = Numeric2(@)]

\* a policy that admits a sample for any existing trip
GpsInsertPolicyAnyDriver(uid, row) ==
    uid # NoUser /\ \E i \in 1..Len(trips) : i = row.trip_id

\* policy "Drivers can create gps updates for own trips"
GpsInsertPolicy(uid, row) ==
    \E i \in 1..Len(trips) : i = row.trip_id /\ trips[i].driver_id = uid

\* the row .single() yields: the only row of the result, an error otherwise
Single(rows) ==
    IF Cardinality(rows) = 1 THEN CHOOSE i \in rows : TRUE ELSE Null

\* INSERT INTO trips by uid: the table after the statement
TripsInsert(uid, row) ==
    IF TripsConstraintsOk(row) /\ TripsInsertPolicy(uid, row)
    THEN Append(trips, row)
    ELSE trips

\* UPDATE trips SET patch WHERE id = id by uid: rows the policy hides are skipped
\* without an error
TripsUpdate(uid, id, status, completed_at) ==
    [i \in 1..Len(trips) |->
        IF i = id /\ TripsUpdatePolicy(uid, trips[i])
        THEN [trips[i] EXCEPT !.status = status, !.completed_at = completed_at]
        ELSE trips[i]]

\* an insert that keeps one row per trip, the new sample replacing the old ones
GpsInsertReplacingLatest(uid, row) ==
    IF GpsConstraintsOk(row) /\ GpsInsertPolicy(uid, row)
    THEN Append(SelectSeq(gps_updates, LAMBDA r : r.trip_id # row.trip_id),
                GpsStored(row))
    ELSE gps_updates

\* INSERT INTO gps_updates by uid: created_at is DEFAULT NOW()
GpsInsert(uid, row) ==
    IF GpsConstraintsOk(row) /\ GpsInsertPolicy(uid, row)
    THEN Append(gps_updates, GpsStored(row))
    ELSE gps_updates

\* SELECT ... FROM gps_updates WHERE trip_id = t ORDER BY created_at DESC LIMIT 1:
\* every row the statement may return (rows with equal created_at are in no
\* defined order)
LatestSamples(table, t) ==
    {i \in 1..Len(table) :
        /\ table[i].trip_id = t
        /\ \A j \in 1..Len(table) :
              table[j].trip_id = t => table[j].created_at <= table[i].created_at}

\* ---- driver dashboard ----------------------------------------------------
Init ==
    /\ busActive = [b \in BusIds |-> TRUE]
    /\ routeActive \in {f \in [RouteIds -> BOOLEAN] : f["r1"]}
    /\ trips = <<>>
    /\ gps_updates = <<>>
    /\ now = 1
    /\ user \in {u \in [Sessions -> Drivers \cup {NoUser}] : u["s1"] = "d1"}
    /\ buses = [s \in Sessions |-> {}]
    /\ routes = [s \in Sessions |-> {}]
    /\ fetchPc = [s \in Sessions |-> "buses"]
    /\ activeTrip = [s \in Sessions |-> Null]
    /\ gpsInterval = [s \in Sessions |-> FALSE]
    /\ gpsUpdateCount = [s \in Sessions |-> 0]
    /\ checkPc = [s \in Sessions |-> "mount"]
    /\ checkResp = [s \in Sessions |-> Null]
    /\ startResp = [s \in Sessions |-> [r \in 0..MaxTrips |-> 0]]
    /\ endResp = [s \in Sessions |-> [r \in Outcomes |-> 0]]
    /\ acquiring = [s \in Sessions |-> [t \in TripIds |-> 0]]
    /\ submitResp = [s \in Sessions |-> [r \in Outcomes |-> 0]]
    /\ time = 0
    /\ lastTick = [s \in Sessions |-> 0]
    /\ intervals = [s \in Sessions |-> 0]
    /\ busLocations = [p \in Passengers |-> <<>>]
    /\ channel = [p \in Passengers |-> 0]
    /\ joined = [p \in Passengers |-> 0]
    /\ delivered = [p \in Passengers |-> 0]
    /\ handlers = [p \in Passengers |-> {}]
    /\ fetches = [p \in Passengers |-> {}]
    /\ locating = [p \in Passengers |-> FALSE]
    /\ selectedRoute = [p \in Passengers |-> NoRoute]
    /\ activeBuses = [p \in Passengers |-> {}]
    /\ busFetches = [p \in Passengers |-> {}]
    /\ notified = [p \in Passengers |-> {}]

\* fetchData, first query: buses with is_active = true
FetchBuses(s) ==
    /\ user[s] # NoUser
    /\ fetchPc[s] = "buses"
    /\ buses' = [buses EXCEPT ![s] = {b \in BusIds : busActive[b]}]
    /\ fetchPc' = [fetchPc EXCEPT ![s] = "routes"]
    /\ UNCHANGED <<timerVars, mapVars, dbVars, user, routes, tripVars, reqVars, gpsVars, paxVars>>

\* fetchData, second query: routes with is_active = true
FetchRoutes(s) ==
    /\ fetchPc[s] = "routes"
    /\ routes' = [routes EXCEPT ![s] = {r \in RouteIds : routeActive[r]}]
    /\ fetchPc' = [fetchPc EXCEPT ![s] = "done"]
    /\ UNCHANGED <<timerVars, mapVars, dbVars, user, buses, tripVars, reqVars, gpsVars, paxVars>>

\* an effect that sets the timer without calling sendGPSUpdate at once
SetActiveTripNoSend(s, t) ==
    /\ activeTrip' = [activeTrip EXCEPT ![s] = t]
    /\ gpsInterval' = [gpsInterval EXCEPT ![s] = (t # Null)]
    /\ acquiring' = acquiring
    /\ lastTick' = [lastTick EXCEPT ![s] = IF t # Null THEN time ELSE @]
    /\ intervals' = [intervals EXCEPT ![s] = IF t # Null THEN 1 ELSE 0]

\* an effect without the cleanup that clears the previous timer
SetActiveTripNoCleanup(s, t) ==
    /\ activeTrip' = [activeTrip EXCEPT ![s] = t]
    /\ gpsInterval' = [gpsInterval EXCEPT ![s] = (t # Null)]
    /\ acquiring' = [acquiring EXCEPT ![s] = IF t # Null THEN BagAdd(@, t) ELSE @]
    /\ lastTick' = [lastTick EXCEPT ![s] = IF t # Null THEN time ELSE @]
    /\ intervals' = [intervals EXCEPT ![s] = IF t # Null THEN @ + 1 ELSE @]

\* the timers left by the cleanup of the effect's previous run: a run for a trip
\* returned a cleanup that clears the timer it set, a run for no trip returned
\* none
AfterCleanup(s) == IF activeTrip[s] # Null THEN intervals[s] - 1 ELSE intervals[s]

\* setActiveTrip(t) and the GPS tracking effect it triggers: the cleanup clears
\* the previous timer; for a trip a new timer is set and sendGPSUpdate is called
\* at once, for no trip the timer stays cleared
SetActiveTrip(s, t) ==
    /\ activeTrip' = [activeTrip EXCEPT ![s] = t]
    /\ gpsInterval' = [gpsInterval EXCEPT ![s] = (t # Null)]
    /\ acquiring' = [acquiring EXCEPT ![s] = IF t # Null THEN BagAdd(@, t) ELSE @]
    /\ lastTick' = [lastTick EXCEPT ![s] = IF t # Null THEN time ELSE @]
    /\ intervals' = [intervals EXCEPT ![s] = AfterCleanup(s) + (IF t # Null THEN 1 ELSE 0)]

\* checkActiveTrip, the query: the caller's active trip, .single()
CheckActiveTripQuery(s) ==
    /\ user[s] # NoUser
    /\ checkPc[s] = "mount"
    /\ checkResp' = [checkResp EXCEPT ![s] = Single(ActiveTripsOf(user[s]))]
    /\ checkPc' = [checkPc EXCEPT ![s] = "sent"]
    /\ UNCHANGED <<timerVars, mapVars, dbVars, user, refVars, tripVars, startResp, endResp, gpsVars, paxVars>>

\* checkActiveTrip, after the await
CheckActiveTripReturn(s) ==
    /\ checkPc[s] = "sent"
    /\ checkPc' = [checkPc EXCEPT ![s] = "done"]
    /\ checkResp' = [checkResp EXCEPT ![s] = Null]
    /\ IF checkResp[s] # Null
       THEN SetActiveTrip(s, checkResp[s])
       ELSE UNCHANGED <<activeTrip, gpsInterval, acquiring, lastTick, intervals>>
    /\ UNCHANGED <<time, mapVars, dbVars, user, refVars, gpsUpdateCount, startResp, endResp, submitResp, paxVars>>

\* handleStartTrip up to the await of the insert; the form is rendered while
\* activeTrip is null and the button is enabled once a bus and a route are chosen
HandleStartTrip(s, bus, route, reached) ==
    /\ user[s] # NoUser
    /\ activeTrip[s] = Null
    /\ bus \in buses[s]
    /\ route \in routes[s]
    /\ InFlight(s) < MaxInFlight
    /\ Len(trips) < MaxTrips
    /\ LET row == [bus_id |-> bus, route_id |-> route, driver_id |-> user[s],
                   status |-> "active", started_at |-> now, completed_at |-> Null]
           after == IF reached THEN TripsInsert(user[s], row) ELSE trips
           resp == IF Len(after) > Len(trips) THEN Len(after) ELSE Null
       IN /\ trips' = after
          /\ startResp' = [startResp EXCEPT ![s] = BagAdd(@, resp)]
    /\ UNCHANGED <<timerVars, mapVars, busActive, routeActive, gps_updates, now, user, refVars,
                   tripVars, checkPc, checkResp, endResp, gpsVars, paxVars>>

\* handleStartTrip with no bus or no route selected: the "Missing Information"
\* toast and the return before any request
HandleStartTripMissing(s, bus, route) ==
    /\ activeTrip[s] = Null
    /\ bus \in buses[s] \cup {NoBus}
    /\ route \in routes[s] \cup {NoRoute}
    /\ bus = NoBus \/ route = NoRoute
    /\ UNCHANGED vars

\* a handleStartTrip that sets the sampling timer whatever the answer was
StartTripReturnTimerFirst(s, r) ==
    /\ startResp[s][r] > 0
    /\ startResp' = [startResp EXCEPT ![s] = BagRemove(@, r)]
    /\ IF r # Null
       THEN SetActiveTrip(s, r)
       ELSE /\ gpsInterval' = [gpsInterval EXCEPT ![s] = TRUE]
            /\ intervals' = [intervals EXCEPT ![s] = @ + 1]
            /\ UNCHANGED <<activeTrip, acquiring, lastTick>>
    /\ UNCHANGED <<time, mapVars, dbVars, user, refVars, gpsUpdateCount, checkPc, checkResp,
                   endResp, submitResp, paxVars>>

\* handleStartTrip after the await: error toast, or setActiveTrip(data)
StartTripReturn(s, r) ==
    /\ startResp[s][r] > 0
    /\ startResp' = [startResp EXCEPT ![s] = BagRemove(@, r)]
    /\ IF r # Null
       THEN SetActiveTrip(s, r)
       ELSE UNCHANGED <<activeTrip, gpsInterval, acquiring, lastTick, intervals>>
    /\ UNCHANGED <<time, mapVars, dbVars, user, refVars, gpsUpdateCount, checkPc, checkResp,
                   endResp, submitResp, paxVars>>

\* handleEndTrip up to the await of the update
HandleEndTrip(s, reached) ==
    /\ activeTrip[s] # Null
    /\ InFlight(s) < MaxInFlight
    /\ trips' = IF reached
                THEN TripsUpdate(user[s], activeTrip[s], "completed", now)
                ELSE trips
    /\ endResp' = [endResp EXCEPT ![s] = BagAdd(@, IF reached THEN "ok" ELSE "error")]
    /\ UNCHANGED <<timerVars, mapVars, busActive, routeActive, gps_updates, now, user, refVars,
                   tripVars, checkPc, checkResp, startResp, gpsVars, paxVars>>

\* a handleEndTrip that clears the dashboard whatever the answer was
EndTripReturnClearing(s, r) ==
    /\ endResp[s][r] > 0
    /\ endResp' = [endResp EXCEPT ![s] = BagRemove(@, r)]
    /\ SetActiveTrip(s, Null)
    /\ gpsUpdateCount' = [gpsUpdateCount EXCEPT ![s] = 0]
    /\ UNCHANGED <<time, mapVars, dbVars, user, refVars, checkPc, checkResp, startResp, submitResp, paxVars>>

\* handleEndTrip after the await: error toast, or setActiveTrip(null) and
\* setGpsUpdateCount(0)
EndTripReturn(s, r) ==
    /\ endResp[s][r] > 0
    /\ endResp' = [endResp EXCEPT ![s] = BagRemove(@, r)]
    /\ IF r = "ok"
       THEN /\ SetActiveTrip(s, Null)
            /\ gpsUpdateCount' = [gpsUpdateCount EXCEPT ![s] = 0]
       ELSE UNCHANGED <<activeTrip, gpsInterval, acquiring, lastTick, intervals, gpsUpdateCount>>
    /\ UNCHANGED <<time, mapVars, dbVars, user, refVars, checkPc, checkResp, startResp, submitResp, paxVars>>

\* an interval callback that waits for the earlier acquisitions and inserts
IntervalTickChained(s) ==
    /\ gpsInterval[s]
    /\ activeTrip[s] # Null
    /\ BagSize(acquiring[s], TripIds) + BagSize(submitResp[s], Outcomes) = 0
    /\ acquiring' = [acquiring EXCEPT ![s] = BagAdd(@, activeTrip[s])]
    /\ lastTick' = [lastTick EXCEPT ![s] = time]
    /\ UNCHANGED <<intervals, time, mapVars, dbVars, user, refVars, tripVars, reqVars, submitResp, paxVars>>

\* the interval callback: sendGPSUpdate with the activeTrip of the render that
\* set the timer, up to getCurrentPosition
IntervalTick(s) ==
    /\ gpsInterval[s]
    /\ activeTrip[s] # Null
    /\ InFlight(s) < MaxInFlight
    /\ acquiring' = [acquiring EXCEPT ![s] = BagAdd(@, activeTrip[s])]
    /\ lastTick' = [lastTick EXCEPT ![s] = time]
    /\ UNCHANGED <<intervals, time, mapVars, dbVars, user, refVars, tripVars, reqVars, submitResp, paxVars>>

\* the callback of setInterval(..., 5000): it runs when the period has passed
\* since the timer was set or last fired
IntervalFires(s) ==
    /\ time = lastTick[s] + Period
    /\ IntervalTick(s)

\* sendGPSUpdate, success callback up to the await of the insert
PositionSuccess(s, t, pos, reached) ==
    /\ acquiring[s][t] > 0
    /\ Len(gps_updates) < MaxSamples
    /\ LET row == Payload(t, pos)
           after == IF reached THEN GpsInsert(user[s], row) ELSE gps_updates
           resp == IF Len(after) > Len(gps_updates) THEN "ok" ELSE "error"
       IN /\ gps_updates' = after
          /\ submitResp' = [submitResp EXCEPT ![s] = BagAdd(@, resp)]
    /\ acquiring' = [acquiring EXCEPT ![s] = BagRemove(@, t)]
    /\ UNCHANGED <<timerVars, mapVars, busActive, routeActive, trips, now, user, refVars, tripVars, reqVars, paxVars>>

\* an error callback that also clears the timer
PositionErrorStopsTimer(s, t) ==
    /\ acquiring[s][t] > 0
    /\ acquiring' = [acquiring EXCEPT ![s] = BagRemove(@, t)]
    /\ gpsInterval' = [gpsInterval EXCEPT ![s] = FALSE]
    /\ UNCHANGED <<timerVars, mapVars, dbVars, user, refVars, activeTrip, gpsUpdateCount,
                   reqVars, submitResp, paxVars>>

\* sendGPSUpdate, error callback of getCurrentPosition: toast only
PositionError(s, t) ==
    /\ acquiring[s][t] > 0
    /\ acquiring' = [acquiring EXCEPT ![s] = BagRemove(@, t)]
    /\ UNCHANGED <<timerVars, mapVars, dbVars, user, refVars, tripVars, reqVars, submitResp, paxVars>>

\* sendGPSUpdate, after the await of the insert
SubmitReturn(s, r) ==
    /\ submitResp[s][r] > 0
    /\ submitResp' = [submitResp EXCEPT ![s] = BagRemove(@, r)]
    /\ gpsUpdateCount' = [gpsUpdateCount EXCEPT ![s] = IF r = "ok" THEN @ + 1 ELSE @]
    /\ UNCHANGED <<timerVars, mapVars, dbVars, user, refVars, activeTrip, gpsInterval, reqVars, acquiring, paxVars>>

\* the page is reloaded: the effect cleanup clears the timer, the callbacks of
\* the old page are gone, and the component mounts with its initial state
Reload(s) ==
    /\ user[s] # NoUser
    /\ buses' = [buses EXCEPT ![s] = {}]
    /\ routes' = [routes EXCEPT ![s] = {}]
    /\ fetchPc' = [fetchPc EXCEPT ![s] = "buses"]
    /\ activeTrip' = [activeTrip EXCEPT ![s] = Null]
    /\ gpsInterval' = [gpsInterval EXCEPT ![s] = FALSE]
    /\ gpsUpdateCount' = [gpsUpdateCount EXCEPT ![s] = 0]
    /\ checkPc' = [checkPc EXCEPT ![s] = "mount"]
    /\ checkResp' = [checkResp EXCEPT ![s] = Null]
    /\ startResp' = [startResp EXCEPT ![s] = [r \in 0..MaxTrips |-> 0]]
    /\ endResp' = [endResp EXCEPT ![s] = [r \in Outcomes |-> 0]]
    /\ acquiring' = [acquiring EXCEPT ![s] = [t \in TripIds |-> 0]]
    /\ submitResp' = [submitResp EXCEPT ![s] = [r \in Outcomes |-> 0]]
    /\ intervals' = [intervals EXCEPT ![s] = AfterCleanup(s)]
    /\ UNCHANGED <<dbVars, user, time, lastTick, mapVars, paxVars>>

\* the title of the toast the session's step shows, "none" when the step calls
\* toast nowhere (console.error is no toast)
Toast(s) ==
    IF StartTripReturn(s, Null) \/ EndTripReturn(s, "error") THEN "Error"
    ELSE IF \E r \in TripIds : StartTripReturn(s, r) THEN "Trip Started!"
    ELSE IF EndTripReturn(s, "ok") THEN "Trip Completed!"
    ELSE IF \E t \in TripIds : PositionError(s, t) THEN "Location Error"
    ELSE "none"

\* ---- a driver's trip as the database sees it ------------------------------
\* The statements of a dashboard that shows the driver's one active trip, on a
\* device whose positioning source answers and whose requests reach the
\* database; the dashboard's own state is left out.

\* handleStartTrip: the insert into trips
StartsTrip(s, bus, route) ==
    /\ user[s] # NoUser
    /\ ActiveTripsOf(user[s]) = {}
    /\ busActive[bus]
    /\ routeActive[route]
    /\ Len(trips) < MaxTrips
    /\ trips' = TripsInsert(user[s],
                    [bus_id |-> bus, route_id |-> route, driver_id |-> user[s],
                     status |-> "active", started_at |-> now, completed_at |-> Null])
    /\ UNCHANGED <<busActive, routeActive, gps_updates, now, user, refVars, tripVars,
                   reqVars, gpsVars, timerVars, mapVars, paxVars>>

\* sendGPSUpdate: the insert into gps_updates
Submits(s, t, pos) ==
    /\ user[s] # NoUser
    /\ t \in ActiveTripsOf(user[s])
    /\ Len(gps_updates) < MaxSamples
    /\ gps_updates' = GpsInsert(user[s], Payload(t, pos))
    /\ UNCHANGED <<busActive, routeActive, trips, now, user, refVars, tripVars, reqVars,
                   gpsVars, timerVars, mapVars, paxVars>>

\* handleEndTrip: the update of trips
EndsTrip(s, t) ==
    /\ user[s] # NoUser
    /\ t \in ActiveTripsOf(user[s])
    /\ trips' = TripsUpdate(user[s], t, "completed", now)
    /\ UNCHANGED <<busActive, routeActive, gps_updates, now, user, refVars, tripVars,
                   reqVars, gpsVars, timerVars, mapVars, paxVars>>

\* ---- BusMap --------------------------------------------------------------
\* the embedded buses (bus_number) of a trips row: null, hence 'Unknown', when
\* the policy "Anyone can view active buses" hides the bus
BusNumber(t) == IF busActive[trips[t].bus_id] THEN trips[t].bus_id ELSE "Unknown"

\* the embedded routes (name) of a trips row
RouteName(t) == IF routeActive[trips[t].route_id] THEN trips[t].route_id ELSE "Unknown Route"

\* a BusLocation of trip t at the position of a gps_updates row
Location(t, bus_number, route_name, row) ==
    [id |-> t, bus_number |-> bus_number, latitude |-> row.latitude,
     longitude |-> row.longitude, trip_id |-> t, route_name |-> route_name]

\* a findIndex that finds no entry
FindIndexNever(prev, id) == 0

\* prev.findIndex(loc => loc.id === id), 0 for -1
FindIndex(prev, id) ==
    IF \E i \in 1..Len(prev) : prev[i].id = id
    THEN CHOOSE i \in 1..Len(prev) :
            /\ prev[i].id = id
            /\ \A j \in 1..(i - 1) : prev[j].id # id
    ELSE 0

\* an updater that always adds the new location
AppendLocation(prev, newLocation) == Append(prev, newLocation)

\* the updater of the INSERT handler: replace existing or add new
UpsertLocation(prev, newLocation) ==
    LET index == FindIndex(prev, newLocation.id)
    IN IF index > 0
       THEN [prev EXCEPT ![index] = newLocation]
       ELSE Append(prev, newLocation)

\* .from('trips').select(id, buses(bus_number), routes(name)).eq('status', 'active')
RECURSIVE ActiveTripList(_)
ActiveTripList(n) ==
    IF n = 0 THEN <<>>
    ELSE LET rest == ActiveTripList(n - 1)
         IN IF trips[n].status = "active"
            THEN Append(rest, [id |-> n, bus_number |-> BusNumber(n),
                               route_name |-> RouteName(n)])
            ELSE rest

\* one run of the subscription effect: a channel on INSERTs of gps_updates is
\* subscribed, then fetchBusLocations() and getUserLocation() are called
RunEffect(p) ==
    /\ channel' = [channel EXCEPT ![p] = @ + 1]
    /\ joined' = [joined EXCEPT ![p] = Len(gps_updates)]
    /\ delivered' = [delivered EXCEPT ![p] = Len(gps_updates)]
    /\ fetches' = [fetches EXCEPT ![p] =
                      @ \cup {[channel |-> channel[p] + 1, k |-> 0, list |-> <<>>,
                               locations |-> <<>>]}]
    /\ locating' = [locating EXCEPT ![p] = TRUE]

\* the passenger dashboard renders <BusMap />: first run of the effect
Mount(p) ==
    /\ channel[p] = 0
    /\ RunEffect(p)
    /\ UNCHANGED <<dbVars, user, refVars, tripVars, reqVars, gpsVars, timerVars, busLocations, handlers, paxVars>>

\* getUserLocation, success callback: setUserLocation(userPos) gives
\* fetchBusLocations a new identity, so the effect's cleanup removes the channel
\* and the effect runs again
UserLocated(p) ==
    /\ locating[p]
    /\ channel[p] < MaxChannels
    /\ RunEffect(p)
    /\ UNCHANGED <<dbVars, user, refVars, tripVars, reqVars, gpsVars, timerVars, busLocations, handlers, paxVars>>

\* getUserLocation, error callback: a log line only
UserLocationError(p) ==
    /\ locating[p]
    /\ locating' = [locating EXCEPT ![p] = FALSE]
    /\ UNCHANGED <<dbVars, user, refVars, tripVars, reqVars, gpsVars, timerVars, busLocations, channel,
                   joined, delivered, handlers, fetches, paxVars>>

\* the channel delivers the next inserted row: the handler is invoked and awaits
\* its trip lookup
Deliver(p) ==
    /\ channel[p] > 0
    /\ delivered[p] < Len(gps_updates)
    /\ delivered' = [delivered EXCEPT ![p] = @ + 1]
    /\ handlers' = [handlers EXCEPT ![p] =
                       @ \cup {[channel |-> channel[p], row |-> delivered[p] + 1]}]
    /\ UNCHANGED <<dbVars, user, refVars, tripVars, reqVars, gpsVars, timerVars, busLocations, channel,
                   joined, fetches, locating, paxVars>>

\* a publication failure that undoes the insert
PublishFailsRollingBack(p) ==
    /\ channel[p] > 0
    /\ delivered[p] < Len(gps_updates)
    /\ gps_updates' = SubSeq(gps_updates, 1, delivered[p])
    /\ UNCHANGED <<busActive, routeActive, trips, now, user, refVars, tripVars, reqVars,
                   gpsVars, timerVars, mapVars, paxVars>>

\* the publication of the next inserted row to the channel fails: the row is
\* skipped, the handler is not invoked
PublishFails(p) ==
    /\ channel[p] > 0
    /\ delivered[p] < Len(gps_updates)
    /\ delivered' = [delivered EXCEPT ![p] = @ + 1]
    /\ UNCHANGED <<dbVars, user, refVars, tripVars, reqVars, gpsVars, timerVars, busLocations,
                   channel, joined, handlers, fetches, locating, paxVars>>

\* the INSERT handler after the await of its trip lookup: newLocation from the
\* payload and the trip, setBusLocations(updater)
HandlerReturn(p, h) ==
    /\ h \in handlers[p]
    /\ LET payload == gps_updates[h.row]
           t == payload.trip_id
           newLocation == Location(t, BusNumber(t), RouteName(t), payload)
       IN busLocations' = [busLocations EXCEPT ![p] = UpsertLocation(@, newLocation)]
    /\ handlers' = [handlers EXCEPT ![p] = @ \ {h}]
    /\ UNCHANGED <<dbVars, user, refVars, tripVars, reqVars, gpsVars, timerVars, channel, joined, delivered,
                   fetches, locating, paxVars>>

\* the INSERT handler when its trip lookup gives no data (the request failed):
\* `if (!tripData) return`, the error is not read
HandlerLookupFails(p, h) ==
    /\ h \in handlers[p]
    /\ handlers' = [handlers EXCEPT ![p] = @ \ {h}]
    /\ UNCHANGED <<dbVars, user, refVars, tripVars, reqVars, gpsVars, timerVars, busLocations,
                   channel, joined, delivered, fetches, locating, paxVars>>

\* fetchBusLocations, the trips query: with no active trip the call returns,
\* busLocations left as it is
FetchTrips(p, f) ==
    /\ f \in fetches[p]
    /\ f.k = 0
    /\ LET list == ActiveTripList(Len(trips))
       IN fetches' = [fetches EXCEPT ![p] =
                         IF Len(list) = 0 THEN @ \ {f}
                         ELSE (@ \ {f}) \cup {[f EXCEPT !.k = 1, !.list = list]}]
    /\ UNCHANGED <<dbVars, user, refVars, tripVars, reqVars, gpsVars, timerVars, busLocations, channel,
                   joined, delivered, handlers, locating, paxVars>>

\* fetchBusLocations, one pass of the loop: the latest gps_updates row of the
\* trip, .single(); the trip is skipped when there is none
FetchGps(p, f, i) ==
    /\ f \in fetches[p]
    /\ f.k \in 1..Len(f.list)
    /\ LET trip == f.list[f.k]
           latest == LatestSamples(gps_updates, trip.id)
       IN /\ i \in latest \cup (IF latest = {} THEN {Null} ELSE {})
          /\ fetches' = [fetches EXCEPT ![p] =
                (@ \ {f}) \cup
                {[f EXCEPT !.k = @ + 1,
                           !.locations =
                               IF i = Null THEN @
                               ELSE Append(@, Location(trip.id, trip.bus_number,
                                                       trip.route_name, gps_updates[i]))]}]
    /\ UNCHANGED <<dbVars, user, refVars, tripVars, reqVars, gpsVars, timerVars, busLocations, channel,
                   joined, delivered, handlers, locating, paxVars>>

\* fetchBusLocations after the loop: setBusLocations(locations)
FetchApply(p, f) ==
    /\ f \in fetches[p]
    /\ f.k = Len(f.list) + 1
    /\ busLocations' = [busLocations EXCEPT ![p] = f.locations]
    /\ fetches' = [fetches EXCEPT ![p] = @ \ {f}]
    /\ UNCHANGED <<dbVars, user, refVars, tripVars, reqVars, gpsVars, timerVars, channel, joined, delivered,
                   handlers, locating, paxVars>>

\* ---- PassengerDashboard --------------------------------------------------
\* SELECT ... FROM trips WHERE route_id = r AND status = 'active': the ids
ActiveOnRoute(r) ==
    {i \in 1..Len(trips) : trips[i].route_id = r /\ trips[i].status = "active"}

\* the rows of trips the channel filter route_id=eq.r passes, with their status
RouteRows(r) ==
    {<<i, trips[i].status>> : i \in {j \in 1..Len(trips) : trips[j].route_id = r}}

\* fetchActiveBuses of the effect run for route r, up to the await: the query
FetchActiveBuses(p, r) ==
    busFetches' = [busFetches EXCEPT ![p] = @ \cup {[route |-> r, buses |-> ActiveOnRoute(r)]}]

\* the passenger picks another entry of the route Select: the cleanup removes
\* the channel of the previous route and the effect runs for the new value
SelectRoute(p, r) ==
    /\ r # selectedRoute[p]
    /\ r # NoRoute => routeActive[r]
    /\ selectedRoute' = [selectedRoute EXCEPT ![p] = r]
    /\ IF r = NoRoute
       THEN /\ activeBuses' = [activeBuses EXCEPT ![p] = {}]
            /\ notified' = [notified EXCEPT ![p] = {}]
            /\ UNCHANGED busFetches
       ELSE /\ FetchActiveBuses(p, r)
            /\ notified' = [notified EXCEPT ![p] = RouteRows(r)]
            /\ UNCHANGED activeBuses
    /\ UNCHANGED <<dbVars, user, refVars, tripVars, reqVars, gpsVars, timerVars, mapVars>>

\* the trips channel of the selected route delivers a change of the route's
\* trips: the handler calls fetchActiveBuses
TripEvent(p) ==
    /\ selectedRoute[p] # NoRoute
    /\ RouteRows(selectedRoute[p]) # notified[p]
    /\ notified' = [notified EXCEPT ![p] = RouteRows(selectedRoute[p])]
    /\ FetchActiveBuses(p, selectedRoute[p])
    /\ UNCHANGED <<dbVars, user, refVars, tripVars, reqVars, gpsVars, timerVars, mapVars,
                   selectedRoute, activeBuses>>

\* fetchActiveBuses after the await: setActiveBuses(buses)
ActiveBusesReturn(p, f) ==
    /\ f \in busFetches[p]
    /\ activeBuses' = [activeBuses EXCEPT ![p] = f.buses]
    /\ busFetches' = [busFetches EXCEPT ![p] = @ \ {f}]
    /\ UNCHANGED <<dbVars, user, refVars, tripVars, reqVars, gpsVars, timerVars, mapVars,
                   selectedRoute, notified>>

\* ---- environment ---------------------------------------------------------
ClockTick ==
    /\ now < MaxClock
    /\ now' = now + 1
    /\ UNCHANGED <<timerVars, mapVars, busActive, routeActive, trips, gps_updates, user, refVars,
                   tripVars, reqVars, gpsVars, paxVars>>

\* a second passes; a live timer whose period has passed fires first
Second ==
    /\ time < MaxTime
    /\ \A s \in Sessions : gpsInterval[s] => time < lastTick[s] + Period
    /\ time' = time + 1
    /\ UNCHANGED <<intervals, dbVars, user, refVars, tripVars, reqVars, gpsVars, lastTick, mapVars, paxVars>>

\* fleet management retires a vehicle: buses.is_active = false
RetireBus(b) ==
    /\ busActive[b]
    /\ busActive' = [busActive EXCEPT ![b] = FALSE]
    /\ UNCHANGED <<timerVars, mapVars, routeActive, trips, gps_updates, now, user, refVars,
                   tripVars, reqVars, gpsVars, paxVars>>

\* fleet management retires a route: routes.is_active = false
RetireRoute(r) ==
    /\ routeActive[r]
    /\ routeActive' = [routeActive EXCEPT ![r] = FALSE]
    /\ UNCHANGED <<timerVars, mapVars, busActive, trips, gps_updates, now, user, refVars,
                   tripVars, reqVars, gpsVars, paxVars>>

\* a signed-in client issues UPDATE trips SET status = ... WHERE id = ... itself:
\* any statement the status CHECK and the update policy admit
UpdateTrip(s, id, status) ==
    /\ user[s] # NoUser
    /\ id \in 1..Len(trips)
    /\ status \in TripStatus
    /\ trips' = TripsUpdate(user[s], id, status, trips[id].completed_at)
    /\ UNCHANGED <<timerVars, mapVars, busActive, routeActive, gps_updates, now, user, refVars,
                   tripVars, reqVars, gpsVars, paxVars>>

\* a signed-in client issues INSERT INTO trips itself, with any driver_id
ClientInsertTrip(s, d, bus, route) ==
    /\ user[s] # NoUser
    /\ Len(trips) < MaxTrips
    /\ trips' = TripsInsert(user[s],
                    [bus_id |-> bus, route_id |-> route, driver_id |-> d,
                     status |-> "active", started_at |-> now, completed_at |-> Null])
    /\ UNCHANGED <<timerVars, mapVars, busActive, routeActive, gps_updates, now, user, refVars,
                   tripVars, reqVars, gpsVars, paxVars>>

\* a signed-in client issues UPDATE trips SET driver_id = d WHERE id = ... itself:
\* the USING expression is also the check of the new row, and a new row that
\* fails it is an error
ClientReassignTrip(s, id, d) ==
    /\ user[s] # NoUser
    /\ id \in 1..Len(trips)
    /\ trips' = IF TripsUpdatePolicy(user[s], trips[id])
                    /\ TripsUpdatePolicy(user[s], [trips[id] EXCEPT !.driver_id = d])
                 THEN [trips EXCEPT ![id].driver_id = d]
                 ELSE trips
    /\ UNCHANGED <<timerVars, mapVars, busActive, routeActive, gps_updates, now, user, refVars,
                   tripVars, reqVars, gpsVars, paxVars>>

\* a signed-in client issues INSERT INTO gps_updates itself, for any trip
ClientInsertSample(s, t, pos) ==
    /\ user[s] # NoUser
    /\ Len(gps_updates) < MaxSamples
    /\ gps_updates' = GpsInsert(user[s], Payload(t, pos))
    /\ UNCHANGED <<timerVars, mapVars, busActive, routeActive, trips, now, user, refVars,
                   tripVars, reqVars, gpsVars, paxVars>>

\* ---- specifications -----------------------------------------------------
\* the steps of the trip handlers of the driver dashboards
TripSteps ==
    \/ \E s \in Sessions : FetchBuses(s)
    \/ \E s \in Sessions : FetchRoutes(s)
    \/ \E s \in Sessions : CheckActiveTripQuery(s)
    \/ \E s \in Sessions : CheckActiveTripReturn(s)
    \/ \E s \in Sessions, b \in BusIds, r \in RouteIds, reached \in BOOLEAN :
          HandleStartTrip(s, b, r, reached)
    \/ \E s \in Sessions, r \in 0..MaxTrips : StartTripReturn(s, r)
    \/ \E s \in Sessions, reached \in BOOLEAN : HandleEndTrip(s, reached)
    \/ \E s \in Sessions, r \in Outcomes : EndTripReturn(s, r)
    \/ \E s \in Sessions : IntervalTick(s)
    \/ \E s \in Sessions, t \in TripIds : PositionError(s, t)
    \/ ClockTick

\* the steps of a sample whose position was acquired
SampleSteps ==
    \/ \E s \in Sessions, t \in TripIds, pos \in Positions, reached \in BOOLEAN :
          PositionSuccess(s, t, pos, reached)
    \/ \E s \in Sessions, r \in Outcomes : SubmitReturn(s, r)

\* Location ingest: one driver dashboard with its sampling and submissions; of
\* the two routes one is active
InitIngest == Init /\ user["s2"] = NoUser /\ ~routeActive["r2"]
NextIngest == TripSteps \/ SampleSteps
SpecIngest == InitIngest /\ [][NextIngest]_vars

\* Trip registry: two driver dashboards, of one driver or of two, on devices
\* whose positioning source fails every acquisition
InitRegistry == Init /\ user["s2"] # NoUser /\ ~routeActive["r2"]
NextRegistry == TripSteps
SpecRegistry == InitRegistry /\ [][NextRegistry]_vars

\* Reference data: one driver dashboard while fleet management retires
\* vehicles and routes
NextFleet ==
    \/ TripSteps
    \/ \E b \in BusIds : RetireBus(b)
    \/ \E r \in RouteIds : RetireRoute(r)
SpecFleet == InitIngest /\ [][NextFleet]_vars

\* Row-level security: one driver dashboard whose signed-in client may also
\* issue the trips updates the policy admits
NextPolicy ==
    \/ TripSteps
    \/ \E s \in Sessions, id \in TripIds, status \in TripStatus : UpdateTrip(s, id, status)
SpecPolicy == InitIngest /\ [][NextPolicy]_vars

\* the steps of a BusMap whose effect runs once
MapSteps ==
    \/ \E p \in Passengers : Mount(p)
    \/ \E p \in Passengers : UserLocationError(p)
    \/ \E p \in Passengers : Deliver(p)
    \/ \E p \in Passengers : \E h \in handlers[p] : HandlerReturn(p, h)
    \/ \E p \in Passengers : \E f \in fetches[p] : FetchTrips(p, f)
    \/ \E p \in Passengers : \E f \in fetches[p] : \E i \in 0..MaxSamples : FetchGps(p, f, i)
    \/ \E p \in Passengers : \E f \in fetches[p] : FetchApply(p, f)

\* the steps of a driver running route r1
DriverSteps ==
    \/ \E s \in Sessions, b \in BusIds : StartsTrip(s, b, "r1")
    \/ \E s \in Sessions, t \in TripIds, pos \in Fixes : Submits(s, t, pos)
    \/ \E s \in Sessions, t \in TripIds : EndsTrip(s, t)
    \/ ClockTick

\* Passenger map: one driver and one BusMap in a browser that gives no position
InitMap == Init /\ user["s2"] = NoUser /\ routeActive["r2"]
NextMap == DriverSteps \/ MapSteps
SpecMap == InitMap /\ [][NextMap]_vars

\* Live updates: one driver and one BusMap whose fetchBusLocations has not been
\* answered yet
NextLive ==
    \/ \E s \in Sessions, b \in BusIds : StartsTrip(s, b, "r1")
    \/ \E s \in Sessions, t \in TripIds, pos \in Fixes : Submits(s, t, pos)
    \/ \E s \in Sessions, t \in TripIds : EndsTrip(s, t)
    \/ \E p \in Passengers : Mount(p)
    \/ \E p \in Passengers : Deliver(p)
    \/ \E p \in Passengers : \E h \in handlers[p] : HandlerReturn(p, h)
SpecLive == InitMap /\ [][NextLive]_vars

\* Fan-out: two drivers and one BusMap whose trip lookups may fail
InitFanout == Init /\ user["s2"] = "d2" /\ routeActive["r2"]
NextFanout ==
    \/ NextLive
    \/ \E p \in Passengers : \E h \in handlers[p] : HandlerLookupFails(p, h)
SpecFanout == InitFanout /\ [][NextFanout]_vars

\* Resubscription: one driver and one BusMap in a browser that gives positions
NextResync ==
    \/ DriverSteps
    \/ MapSteps
    \/ \E p \in Passengers : UserLocated(p)
SpecResync == InitMap /\ [][NextResync]_vars

\* a position the store accepts and one it rejects
StoredOrRejected == {pos \in Positions : pos.longitude = -75 /\ pos.latitude # 95}

\* Sampling scheduler: one driver dashboard whose requests reach the database,
\* with the seconds its interval timer measures
SchedulerSteps ==
    \/ \E s \in Sessions : FetchBuses(s)
    \/ \E s \in Sessions : FetchRoutes(s)
    \/ \E s \in Sessions : CheckActiveTripQuery(s)
    \/ \E s \in Sessions : CheckActiveTripReturn(s)
    \/ \E s \in Sessions, b \in BusIds, r \in RouteIds : HandleStartTrip(s, b, r, TRUE)
    \/ \E s \in Sessions, r \in 0..MaxTrips : StartTripReturn(s, r)
    \/ \E s \in Sessions : HandleEndTrip(s, TRUE)
    \/ \E s \in Sessions, r \in Outcomes : EndTripReturn(s, r)
    \/ \E s \in Sessions : IntervalFires(s)
    \/ \E s \in Sessions, t \in TripIds, pos \in StoredOrRejected :
          PositionSuccess(s, t, pos, TRUE)
    \/ \E s \in Sessions, t \in TripIds : PositionError(s, t)
    \/ \E s \in Sessions, r \in Outcomes : SubmitReturn(s, r)
    \/ Second
SpecScheduler == InitIngest /\ [][SchedulerSteps]_vars

\* Insert payload: one driver dashboard whose positioning source gives readings
\* with and without speed, heading and accuracy
PayloadSteps ==
    \/ \E s \in Sessions : FetchBuses(s)
    \/ \E s \in Sessions : FetchRoutes(s)
    \/ \E s \in Sessions : CheckActiveTripQuery(s)
    \/ \E s \in Sessions : CheckActiveTripReturn(s)
    \/ \E s \in Sessions, b \in BusIds, r \in RouteIds : HandleStartTrip(s, b, r, TRUE)
    \/ \E s \in Sessions, r \in 0..MaxTrips : StartTripReturn(s, r)
    \/ \E s \in Sessions : IntervalTick(s)
    \/ \E s \in Sessions, t \in TripIds, pos \in Readings : PositionSuccess(s, t, pos, TRUE)
    \/ \E s \in Sessions, r \in Outcomes : SubmitReturn(s, r)
SpecPayload == InitIngest /\ [][PayloadSteps]_vars

\* Durability: one driver dashboard and one BusMap whose channel may lose rows
NextDurable ==
    \/ PayloadSteps
    \/ \E p \in Passengers : Mount(p)
    \/ \E p \in Passengers : Deliver(p)
    \/ \E p \in Passengers : PublishFails(p)
    \/ \E p \in Passengers : \E h \in handlers[p] : HandlerReturn(p, h)
SpecDurable == InitIngest /\ [][NextDurable]_vars

\* Authorization: two drivers whose clients issue any statement on trips and
\* gps_updates
InitAuthz == Init /\ user["s2"] = "d2" /\ routeActive["r2"]
NextAuthz ==
    \/ \E s \in Sessions, d \in Drivers, b \in BusIds, r \in RouteIds :
          ClientInsertTrip(s, d, b, r)
    \/ \E s \in Sessions, id \in TripIds, status \in TripStatus : UpdateTrip(s, id, status)
    \/ \E s \in Sessions, id \in TripIds, d \in Drivers : ClientReassignTrip(s, id, d)
    \/ \E s \in Sessions, t \in TripIds, pos \in Fixes : ClientInsertSample(s, t, pos)
    \/ ClockTick
SpecAuthz == InitAuthz /\ [][NextAuthz]_vars

\* Passenger dashboard: one driver who runs trips on both routes and one
\* PassengerDashboard
BoardSteps ==
    \/ \E p \in Passengers, r \in RouteIds \cup {NoRoute} : SelectRoute(p, r)
    \/ \E p \in Passengers : TripEvent(p)
    \/ \E p \in Passengers : \E f \in busFetches[p] : ActiveBusesReturn(p, f)
NextBoard ==
    \/ \E s \in Sessions, b \in BusIds, r \in RouteIds : StartsTrip(s, b, r)
    \/ \E s \in Sessions, t \in TripIds : EndsTrip(s, t)
    \/ BoardSteps
SpecBoard == InitMap /\ [][NextBoard]_vars

\* Refreshes: one driver on route r1 and one PassengerDashboard that selects r1
\* and keeps it
NextRefresh ==
    \/ \E s \in Sessions, b \in BusIds : StartsTrip(s, b, "r1")
    \/ \E s \in Sessions, t \in TripIds : EndsTrip(s, t)
    \/ \E p \in Passengers : selectedRoute[p] = NoRoute /\ SelectRoute(p, "r1")
    \/ \E p \in Passengers : TripEvent(p)
    \/ \E p \in Passengers : \E f \in busFetches[p] : ActiveBusesReturn(p, f)
    \/ ClockTick
SpecRefresh == InitMap /\ [][NextRefresh]_vars

\* Cancellation: one driver dashboard whose requests reach the database and one
\* PassengerDashboard that selects r1 and keeps it
NextCancel ==
    \/ \E s \in Sessions : FetchBuses(s)
    \/ \E s \in Sessions : FetchRoutes(s)
    \/ \E s \in Sessions : CheckActiveTripQuery(s)
    \/ \E s \in Sessions : CheckActiveTripReturn(s)
    \/ \E s \in Sessions, b \in BusIds, r \in RouteIds : HandleStartTrip(s, b, r, TRUE)
    \/ \E s \in Sessions, r \in 0..MaxTrips : StartTripReturn(s, r)
    \/ \E s \in Sessions : HandleEndTrip(s, TRUE)
    \/ \E s \in Sessions, r \in Outcomes : EndTripReturn(s, r)
    \/ \E s \in Sessions, t \in TripIds : PositionError(s, t)
    \/ \E p \in Passengers : selectedRoute[p] = NoRoute /\ SelectRoute(p, "r1")
    \/ \E p \in Passengers : TripEvent(p)
    \/ \E p \in Passengers : \E f \in busFetches[p] : ActiveBusesReturn(p, f)
SpecCancel == InitIngest /\ [][NextCancel]_vars

\* Resume: one driver dashboard whose requests reach the database and whose
\* page may be reloaded
NextResume ==
    \/ PayloadSteps
    \/ \E s \in Sessions : HandleEndTrip(s, TRUE)
    \/ \E s \in Sessions, r \in Outcomes : EndTripReturn(s, r)
    \/ \E s \in Sessions : Reload(s)
SpecResume == InitIngest /\ [][NextResume]_vars

\* Trip start: one driver dashboard whose Start Trip button may be pressed with
\* the bus or the route not selected
NextStart ==
    \/ TripSteps
    \/ \E s \in Sessions, b \in BusIds \cup {NoBus}, r \in RouteIds \cup {NoRoute} :
          HandleStartTripMissing(s, b, r)
SpecStart == InitIngest /\ [][NextStart]_vars

\* ---- Trip Registry -------------------------------------------------------
\* the step of handleStartTrip that reaches the registry answered with an error
StartTripFailed(s) == startResp'[s][Null] = startResp[s][Null] + 1

\* the step of handleEndTrip that reaches the registry answered with an error
EndTripFailed(s) == endResp'[s]["error"] = endResp[s]["error"] + 1

\* the insert of sendGPSUpdate answered with an error
SubmitFailed(s) == submitResp'[s]["error"] = submitResp[s]["error"] + 1

\* C1: in every reachable state every driver has at most one trip with
\* status = active.
OneActiveTripPerDriver ==
    \A d \in Drivers : Cardinality(ActiveTripsOf(d)) <= 1

\* C2: StartTrip of a driver who has an active trip fails and creates no trip
\* record; StartTrip of a driver who has none (as after EndTrip) succeeds and
\* leaves the driver with exactly the new trip active.
StartTripConflict ==
    [][\A s \in Sessions, b \in BusIds, r \in RouteIds, reached \in BOOLEAN :
          HandleStartTrip(s, b, r, reached) =>
              IF ActiveTripsOf(user[s]) # {}
              THEN trips' = trips /\ StartTripFailed(s)
              ELSE reached =>
                      /\ Len(trips') = Len(trips) + 1
                      /\ ActiveTripsOf(user[s])' = {Len(trips')}]_vars

\* C4: a trip's status is always active, completed or cancelled, and once it
\* is not active no step changes it.
TerminalStatus ==
    /\ [](\A i \in 1..Len(trips) : trips[i].status \in TripStatus)
    /\ [][\A i \in 1..Len(trips) :
             trips[i].status # "active" => trips'[i].status = trips[i].status]_vars

\* C5: EndTrip of a trip that is not an active trip of the caller fails and
\* leaves the trip records unchanged.
EndTripNotFound ==
    [][\A s \in Sessions, reached \in BOOLEAN :
          (/\ HandleEndTrip(s, reached)
           /\ ~(/\ trips[activeTrip[s]].status = "active"
                /\ trips[activeTrip[s]].driver_id = user[s]))
          => trips' = trips /\ EndTripFailed(s)]_vars

\* C6: StartTrip with a vehicle or route that is inactive when the trip is
\* inserted fails and creates no trip.
StartTripInactiveReference ==
    [][\A s \in Sessions, b \in BusIds, r \in RouteIds, reached \in BOOLEAN :
          (HandleStartTrip(s, b, r, reached) /\ ~(busActive[b] /\ routeActive[r]))
          => trips' = trips /\ StartTripFailed(s)]_vars

\* ---- Location Ingest and Location Store -----------------------------------
ValidPosition(pos) ==
    /\ pos.latitude >= -90 /\ pos.latitude <= 90
    /\ pos.longitude >= -180 /\ pos.longitude <= 180

\* C3: Submit for a trip that is not active fails, creates no sample row and
\* leaves the trip's latest sample as it was.
SubmitAfterEndTripRejected ==
    [][\A s \in Sessions, t \in TripIds, pos \in Positions, reached \in BOOLEAN :
          (PositionSuccess(s, t, pos, reached) /\ trips[t].status # "active")
          => /\ gps_updates' = gps_updates
             /\ LatestSamples(gps_updates', t) = LatestSamples(gps_updates, t)
             /\ SubmitFailed(s)]_vars

\* C7: Submit of a latitude outside [-90, 90] or a longitude outside
\* [-180, 180] fails and stores no sample.
SubmitValidatesCoordinates ==
    [][\A s \in Sessions, t \in TripIds, pos \in Positions, reached \in BOOLEAN :
          (PositionSuccess(s, t, pos, reached) /\ ~ValidPosition(pos))
          => gps_updates' = gps_updates /\ SubmitFailed(s)]_vars

\* C8: Submit of a valid sample to an active trip succeeds, and the
\* latest-sample query of the trip then returns that sample.
SubmitThenLatest ==
    [][\A s \in Sessions, t \in TripIds, pos \in Positions :
          (/\ PositionSuccess(s, t, pos, TRUE)
           /\ ValidPosition(pos)
           /\ trips[t].status = "active")
          => /\ Len(gps_updates') = Len(gps_updates) + 1
             /\ LatestSamples(gps_updates', t) = {Len(gps_updates')}]_vars

\* C9: within one trip a sample accepted later has a strictly larger
\* created_at than one accepted earlier.
SamplesTotallyOrdered ==
    \A i, j \in 1..Len(gps_updates) :
        (i < j /\ gps_updates[i].trip_id = gps_updates[j].trip_id)
        => gps_updates[i].created_at < gps_updates[j].created_at

\* C10: the sample log only grows: no step changes or removes a stored sample.
SampleLogAppendOnly ==
    [][/\ Len(gps_updates') >= Len(gps_updates)
       /\ \A i \in 1..Len(gps_updates) : gps_updates'[i] = gps_updates[i]]_vars

\* C10: a sample outlives the end of its trip, the start of the next trip and
\* the next trip's sample.
SampleLogAppendOnlyWitness ==
    /\ Len(gps_updates) = 2
    /\ gps_updates[1].trip_id # gps_updates[2].trip_id
    /\ trips[gps_updates[1].trip_id].status = "completed"

\* ---- Client Reconciler ----------------------------------------------------
\* the entries of a view for trip t
EntriesOf(view, t) == {i \in 1..Len(view) : view[i].id = t}

\* the entry shows the position of the gps_updates row
ShowsRow(entry, row) ==
    entry.latitude = row.latitude /\ entry.longitude = row.longitude

\* the rows of gps_updates an entry of trip t may have been built from
RowsShown(entry, t) ==
    {j \in 1..Len(gps_updates) :
        gps_updates[j].trip_id = t /\ ShowsRow(entry, gps_updates[j])}

\* row j reached the handler of the passenger's current channel after row i and
\* its invocation has finished
AppliedAfter(p, i, j) ==
    /\ j \in (i + 1)..delivered[p]
    /\ [channel |-> channel[p], row |-> j] \notin handlers[p]

\* C11: of two samples of one trip delivered to a subscribed BusMap, the one
\* accepted first is never applied to busLocations after the one accepted later.
HandlerAppliesInOrder ==
    [][\A p \in Passengers : \A h \in handlers[p] :
          (HandlerReturn(p, h) /\ h.channel = channel[p]) =>
              ~ \E j \in 1..Len(gps_updates) :
                    /\ gps_updates[j].trip_id = gps_updates[h.row].trip_id
                    /\ AppliedAfter(p, h.row, j)]_vars

\* C12: a handler invocation whose sample has an older created_at than the
\* sample busLocations holds for the trip leaves busLocations as it is.
OlderSampleIgnored ==
    [][\A p \in Passengers : \A h \in handlers[p] :
          LET t == gps_updates[h.row].trip_id
              heldNewer ==
                  \E i \in EntriesOf(busLocations[p], t) :
                      \A j \in RowsShown(busLocations[p][i], t) :
                          gps_updates[j].created_at > gps_updates[h.row].created_at
          IN (HandlerReturn(p, h) /\ heldNewer) =>
                 busLocations'[p] = busLocations[p]]_vars

Settled(p) ==
    /\ channel[p] > 0
    /\ delivered[p] = Len(gps_updates)
    /\ handlers[p] = {}
    /\ fetches[p] = {}
    /\ ~locating[p]

\* C14: once a trip has been ended, a BusMap that stays mounted ends up without
\* an entry for it: when the BusMap has nothing left to do, every entry of
\* busLocations is for an active trip.
EndedTripRemoved ==
    \A p \in Passengers :
        Settled(p) =>
            \A i \in 1..Len(busLocations[p]) :
                trips[busLocations[p][i].id].status = "active"

\* the view has an entry for trip t at the position of a latest sample of t
ShowsLatest(view, t) ==
    \E i \in EntriesOf(view, t) :
        RowsShown(view[i], t) \cap LatestSamples(gps_updates, t) # {}

\* C15: a live sample applied while fetchBusLocations is in flight is not undone
\* by the snapshot: when the call sets busLocations, every active trip that was
\* shown at its latest sample still is.
BootstrapKeepsLiveSamples ==
    [][\A p \in Passengers : \A f \in fetches[p] :
          FetchApply(p, f) =>
              \A t \in 1..Len(trips) :
                  (trips[t].status = "active" /\ ShowsLatest(busLocations[p], t)) =>
                      ShowsLatest(busLocations'[p], t)]_vars

\* fetchBusLocations ends without setting busLocations: no active trip
FetchReturnsEarly(p, f) ==
    /\ FetchTrips(p, f)
    /\ ActiveTripList(Len(trips)) = <<>>

\* C16: when the fetchBusLocations of a resubscription ends, busLocations is what
\* a BusMap mounted at that moment would hold: the locations the call collected,
\* none when the registry has no active trip.
ResyncMatchesColdBootstrap ==
    [][\A p \in Passengers : \A f \in fetches[p] :
          (/\ channel[p] > 1
           /\ f.channel = channel[p]
           /\ FetchApply(p, f) \/ FetchReturnsEarly(p, f)) =>
              busLocations'[p] = f.locations]_vars

\* C17: whichever route the passenger has selected in the dashboard that renders
\* the BusMap, the first fetchBusLocations leaves one entry for each trip it
\* collected and no entry for a trip of another route.
BootstrapShowsSelectedRoute ==
    [][\A p \in Passengers : \A f \in fetches[p] :
          (FetchApply(p, f) /\ f.channel = 1) =>
              \A chosen \in {r \in RouteIds : routeActive[r]} :
                  /\ \A i \in 1..Len(busLocations'[p]) :
                        busLocations'[p][i].route_name = chosen
                  /\ \A t \in TripIds :
                        Cardinality(EntriesOf(busLocations'[p], t)) <= 1]_vars

\* C18: an active trip without a stored sample is shown: when fetchBusLocations
\* sets busLocations, every trip of its list of active trips has an entry.
TripWithoutSampleShown ==
    [][\A p \in Passengers : \A f \in fetches[p] :
          FetchApply(p, f) =>
              \A k \in 1..Len(f.list) :
                  EntriesOf(busLocations'[p], f.list[k].id) # {}]_vars

\* C19: once the effect's cleanup has removed a channel, neither a handler
\* invocation of that channel nor the fetchBusLocations call started with it
\* changes busLocations.
RemovedChannelSilent ==
    [][\A p \in Passengers :
          /\ \A h \in handlers[p] :
                (HandlerReturn(p, h) /\ h.channel < channel[p]) =>
                    busLocations'[p] = busLocations[p]
          /\ \A f \in fetches[p] :
                (FetchApply(p, f) /\ f.channel < channel[p]) =>
                    busLocations'[p] = busLocations[p]]_vars

\* ---- Sampling Scheduler ----------------------------------------------------
\* C20: while activeTrip is null no interval callback runs, and a position that
\* arrives for an acquisition started before the trip ended issues no insert.
NoSubmitAfterTripEnd ==
    [][\A s \in Sessions :
          activeTrip[s] = Null =>
              /\ ~IntervalTick(s)
              /\ \A t \in TripIds, pos \in Positions, reached \in BOOLEAN :
                    PositionSuccess(s, t, pos, reached) =>
                        /\ gps_updates' = gps_updates
                        /\ submitResp'[s] = submitResp[s]]_vars

\* the step runs the GPS tracking effect for trip t: timer set, first
\* sendGPSUpdate called at once
TrackingStarts(s, t) ==
    /\ activeTrip'[s] = t
    /\ gpsInterval'[s]
    /\ lastTick'[s] = time
    /\ acquiring'[s][t] = acquiring[s][t] + 1

TickFails(s) ==
    \/ \E t \in TripIds : PositionError(s, t)
    \/ \E t \in TripIds, pos \in Positions : PositionSuccess(s, t, pos, TRUE) /\ SubmitFailed(s)
    \/ SubmitReturn(s, "error")

\* C22: a failed acquisition or a rejected insert leaves the active trip and its
\* timer as they are, and an active trip always has a live timer, so the next
\* periodic tick fires.
TickFailureKeepsTimer ==
    [][\A s \in Sessions :
          /\ TickFails(s) =>
                /\ activeTrip'[s] = activeTrip[s]
                /\ gpsInterval'[s] = gpsInterval[s]
                /\ lastTick'[s] = lastTick[s]
          /\ activeTrip[s] # Null => gpsInterval[s]
          /\ activeTrip'[s] # Null => gpsInterval'[s]]_vars

\* the acquisition started at the last tick is over and nothing was stored, and
\* one period later the timer is alive and its callback can run
TickFailureKeepsTimerWitness ==
    \E s \in Sessions :
        /\ activeTrip[s] # Null
        /\ gpsInterval[s]
        /\ time = lastTick[s] + Period
        /\ gps_updates = <<>>
        /\ BagSize(submitResp[s], Outcomes) = 0
        /\ BagSize(acquiring[s], TripIds) = 0
        /\ ENABLED IntervalFires(s)

\* C23: when the period has passed the interval callback can run, however many
\* earlier acquisitions or inserts are still pending.
TicksNotChained ==
    \A s \in Sessions :
        (/\ activeTrip[s] # Null
         /\ time = lastTick[s] + Period
         /\ InFlight(s) < MaxInFlight) =>
            ENABLED IntervalFires(s)

\* a tick is due while an earlier acquisition of the trip is still pending
TicksNotChainedWitness ==
    \E s \in Sessions :
        /\ activeTrip[s] # Null
        /\ time = lastTick[s] + Period
        /\ InFlight(s) < MaxInFlight
        /\ acquiring[s][activeTrip[s]] > 0

\* ---------------------------------------------------------------------------
\* Fan-out to subscribers

\* C24: when samples of two distinct active trips were inserted after a BusMap
\* subscribed and every handler invocation has finished, busLocations holds an
\* entry for each of these trips at a position of that trip.
FanoutKeepsEveryTrip ==
    \A p \in Passengers :
        (/\ channel[p] > 0
         /\ joined[p] = 0
         /\ delivered[p] = Len(gps_updates)
         /\ handlers[p] = {}
         /\ \E i, j \in 1..Len(gps_updates) :
               gps_updates[i].trip_id # gps_updates[j].trip_id) =>
            \A j \in 1..Len(gps_updates) :
                LET t == gps_updates[j].trip_id
                IN trips[t].status = "active" =>
                       \E i \in EntriesOf(busLocations[p], t) :
                           RowsShown(busLocations[p][i], t) # {}

\* C25: a handler invocation of the current channel that finishes for a sample
\* of an active trip leaves busLocations with an entry of the trip that shows
\* this sample or a later one of the trip.
HandlerKeepsSample ==
    [][\A p \in Passengers : \A h \in handlers[p] :
          LET t == gps_updates[h.row].trip_id
          IN (/\ handlers'[p] = handlers[p] \ {h}
              /\ h.channel = channel[p]
              /\ trips[t].status = "active") =>
                 \E i \in EntriesOf(busLocations'[p], t) :
                     \E j \in RowsShown(busLocations'[p][i], t) : j >= h.row]_vars

\* ---------------------------------------------------------------------------
\* Insert payload

\* C28: a reading that sendGPSUpdate stores is stored with speed, heading and
\* accuracy equal to 0 where the reading lacks them and to the reading's value
\* where it has one.
SubmitDefaultsToZero ==
    [][\A s \in Sessions, t \in TripIds, pos \in Readings :
          (PositionSuccess(s, t, pos, TRUE) /\ Len(gps_updates') > Len(gps_updates)) =>
              LET row == gps_updates'[Len(gps_updates')]
                  Expected(x) == IF x = Absent THEN 0 ELSE x
              IN /\ row.speed = Expected(pos.speed)
                 /\ row.heading = Expected(pos.heading)
                 /\ row.accuracy = Expected(pos.accuracy)]_vars

\* ---------------------------------------------------------------------------
\* Durability and delivery

\* C27: a publication failure leaves gps_updates and the dashboard's responses
\* and counter as they are, and every stored row has been or will be reported to
\* sendGPSUpdate as a success.
PersistedDespitePublishFailure ==
    [][/\ \A p \in Passengers :
             PublishFails(p) =>
                 /\ gps_updates' = gps_updates
                 /\ submitResp' = submitResp
                 /\ gpsUpdateCount' = gpsUpdateCount
       /\ Len(gps_updates') =
              gpsUpdateCount'["s1"] + submitResp'["s1"]["ok"]]_vars

\* the publication of a row failed: the subscribed BusMap shows nothing, no
\* handler is pending, and the row is stored and was reported as a success
PersistedDespitePublishFailureWitness ==
    \E p \in Passengers :
        /\ channel[p] > 0
        /\ joined[p] = 0
        /\ delivered[p] = Len(gps_updates)
        /\ handlers[p] = {}
        /\ busLocations[p] = <<>>
        /\ Len(gps_updates) > 0
        /\ gpsUpdateCount["s1"] = Len(gps_updates)

\* ---------------------------------------------------------------------------
\* Active-trip lookup

\* C29: the query of checkActiveTrip changes no table, answers with an active
\* trip of the driver whenever the driver has one, and with none otherwise.
CheckActiveTripFindsTrip ==
    [][\A s \in Sessions :
          CheckActiveTripQuery(s) =>
              /\ UNCHANGED dbVars
              /\ IF ActiveTripsOf(user[s]) # {}
                 THEN checkResp'[s] \in ActiveTripsOf(user[s])
                 ELSE checkResp'[s] = Null]_vars

\* ---------------------------------------------------------------------------
\* Notifications

\* C30: the step in which the dashboard learns that a trip start, a trip end,
\* an acquisition or an insert of a sample failed shows a toast that tells the
\* failure.
FailureShowsToast ==
    [][\A s \in Sessions :
          (\/ StartTripReturn(s, Null)
           \/ EndTripReturn(s, "error")
           \/ \E t \in TripIds : PositionError(s, t)
           \/ SubmitReturn(s, "error")) =>
              Toast(s) \in {"Error", "Location Error"}]_vars

\* ---------------------------------------------------------------------------
\* Authorization

\* the trips of driver d and the samples of these trips
TripsOfDriver(table, d) == {i \in 1..Len(table) : table[i].driver_id = d}
SamplesOfDriver(table, d) ==
    {j \in 1..Len(table) : trips[table[j].trip_id].driver_id = d}

\* C31: whatever statement the client of a driver issues, a new trip has the
\* caller as its driver, a changed trip was and stays the caller's, a new
\* sample is of a trip of the caller, and the trips and samples of every other
\* driver stay as they are.
AuthorizedByDriver ==
    [][\A s \in Sessions :
          (\/ \E d \in Drivers, b \in BusIds, r \in RouteIds : ClientInsertTrip(s, d, b, r)
           \/ \E id \in TripIds, status \in TripStatus : UpdateTrip(s, id, status)
           \/ \E id \in TripIds, d \in Drivers : ClientReassignTrip(s, id, d)
           \/ \E t \in TripIds, pos \in Fixes : ClientInsertSample(s, t, pos)) =>
              /\ \A i \in 1..Len(trips') :
                    (i > Len(trips) \/ trips'[i] # trips[i]) =>
                        /\ trips'[i].driver_id = user[s]
                        /\ i <= Len(trips) => trips[i].driver_id = user[s]
              /\ \A j \in (Len(gps_updates) + 1)..Len(gps_updates') :
                    trips[gps_updates'[j].trip_id].driver_id = user[s]
              /\ \A d \in Drivers \ {user[s]} :
                    /\ TripsOfDriver(trips', d) = TripsOfDriver(trips, d)
                    /\ SamplesOfDriver(gps_updates', d) = SamplesOfDriver(gps_updates, d)]_vars

\* two drivers each have a trip with a sample, and one of the trips was ended
AuthorizedByDriverWitness ==
    \E i, j \in 1..Len(trips) :
        /\ trips[i].driver_id # trips[j].driver_id
        /\ trips[i].status = "completed"
        /\ \E a, b \in 1..Len(gps_updates) :
              gps_updates[a].trip_id = i /\ gps_updates[b].trip_id = j

\* ---------------------------------------------------------------------------
\* Passenger dashboard

\* the PassengerDashboard has nothing left to do: no response of
\* fetchActiveBuses is pending and its channel has reported every change
BoardSettled(p) ==
    /\ busFetches[p] = {}
    /\ selectedRoute[p] # NoRoute => notified[p] = RouteRows(selectedRoute[p])

\* C37: activeBuses is empty while no route is selected and otherwise holds only
\* trips of the selected route.
ActiveBusesOfSelectedRoute ==
    \A p \in Passengers :
        /\ selectedRoute[p] = NoRoute => activeBuses[p] = {}
        /\ \A t \in activeBuses[p] : trips[t].route_id = selectedRoute[p]

\* C38: when a PassengerDashboard that has selected a route has nothing left to
\* do, activeBuses is the set of the route's trips with status = active.
ActiveBusesConverge ==
    \A p \in Passengers :
        (selectedRoute[p] # NoRoute /\ BoardSettled(p)) =>
            activeBuses[p] = ActiveOnRoute(selectedRoute[p])

\* C32: when a trip has been ended and neither the driver dashboard nor a
\* PassengerDashboard that has selected a route has anything left to do, the
\* trip is not the dashboard's active trip, no timer runs without an active
\* trip, and activeBuses does not contain the trip.
EndTripEffectsSettle ==
    \A s \in Sessions, p \in Passengers, t \in 1..Len(trips) :
        (/\ trips[t].status = "completed"
         /\ user[s] = trips[t].driver_id
         /\ InFlight(s) = 0
         /\ selectedRoute[p] # NoRoute
         /\ BoardSettled(p)) =>
            /\ activeTrip[s] # t
            /\ activeTrip[s] = Null => ~gpsInterval[s]
            /\ t \notin activeBuses[p]

\* ---------------------------------------------------------------------------
\* Resume after reload

\* C33: the checkActiveTrip of a dashboard mounted while the registry holds an
\* active trip of its driver finds such a trip, and when its answer arrives the
\* trip becomes the dashboard's active trip and the first acquisition under its
\* id starts in the same step, with no change to the registry.
ResumeAfterReload ==
    [][\A s \in Sessions :
          /\ (CheckActiveTripQuery(s) /\ ActiveTripsOf(user[s]) # {}) =>
                 checkResp'[s] \in ActiveTripsOf(user[s])
          /\ (CheckActiveTripReturn(s) /\ checkResp[s] # Null) =>
                 /\ TrackingStarts(s, checkResp[s])
                 /\ trips' = trips]_vars

\* ---------------------------------------------------------------------------
\* Sampling timer

\* C34: a dashboard has at most one interval timer that is not cleared, and has
\* one exactly while its activeTrip is set.
OneTimerWhileActive ==
    \A s \in Sessions :
        /\ intervals[s] <= 1
        /\ intervals[s] = 1 <=> activeTrip[s] # Null
        /\ gpsInterval[s] <=> intervals[s] = 1

\* the dashboard ended a trip and started the next one: the timer of the first
\* trip was cleared and the dashboard has the one timer of the second
OneTimerWhileActiveWitness ==
    \E s \in Sessions :
        /\ Len(trips) = 2
        /\ trips[1].status = "completed"
        /\ activeTrip[s] = 2
        /\ gpsInterval[s]
        /\ intervals[s] = 1

\* ---------------------------------------------------------------------------
\* Update counter

\* C35: gpsUpdateCount is 0 whenever the dashboard has no active trip, also
\* after an insert made during a trip is answered once the trip was ended.
CountZeroWithoutTrip ==
    \A s \in Sessions : activeTrip[s] = Null => gpsUpdateCount[s] = 0

\* C36: busLocations holds at most one entry per trip id, however the bootstrap
\* fetches and the subscription handler updates interleave.
OneEntryPerTripId ==
    \A p \in Passengers : \A t \in TripIds :
        Cardinality(EntriesOf(busLocations[p], t)) <= 1

\* a fetch and a handler have both written the entry of a trip with two samples
OneEntryPerTripIdWitness ==
    \E p \in Passengers : \E t \in TripIds :
        /\ Cardinality(EntriesOf(busLocations[p], t)) = 1
        /\ Cardinality({j \in 1..Len(gps_updates) : gps_updates[j].trip_id = t}) >= 2
        /\ joined[p] >= 1
        /\ handlers[p] = {}
        /\ fetches[p] = {}
        /\ delivered[p] = Len(gps_updates)

\* ---------------------------------------------------------------------------
\* Failed trip operations

\* C39: a handleEndTrip whose update is rejected with an error leaves the
\* dashboard as it was, in the step that issues the update and in the step that
\* handles the error: activeTrip keeps its trip, gpsUpdateCount is not reset, the
\* sampling timer stays set and the registry keeps the trip as it is.
EndTripErrorKeepsTrip ==
    [][\A s \in Sessions :
          (HandleEndTrip(s, FALSE) \/ EndTripReturn(s, "error")) =>
              /\ activeTrip'[s] = activeTrip[s]
              /\ gpsUpdateCount'[s] = gpsUpdateCount[s]
              /\ gpsInterval'[s] = gpsInterval[s]
              /\ intervals'[s] = intervals[s]
              /\ lastTick'[s] = lastTick[s]
              /\ trips' = trips]_vars

\* the error of a rejected update is about to be handled on a dashboard that
\* tracks an active trip and has counted a submission
EndTripErrorKeepsTripWitness ==
    \E s \in Sessions :
        /\ endResp[s]["error"] > 0
        /\ activeTrip[s] # Null
        /\ trips[activeTrip[s]].status = "active"
        /\ gpsInterval[s]
        /\ intervals[s] = 1
        /\ gpsUpdateCount[s] > 0

\* the dashboard state of session s that a trip start may touch
StartState(s) ==
    <<activeTrip[s], gpsInterval[s], intervals[s], lastTick[s], acquiring[s], gpsUpdateCount[s]>>

\* C40: a handleStartTrip that does not succeed changes nothing: pressed with no
\* bus or no route selected it issues no insert, and when the insert is rejected
\* no trip record is added, activeTrip stays as it was (null) and no sampling
\* timer is started, in the step that issues the insert and in the step that
\* handles the error.
StartTripFailureChangesNothing ==
    [][\A s \in Sessions :
          /\ (\E b \in BusIds \cup {NoBus}, r \in RouteIds \cup {NoRoute} :
                 HandleStartTripMissing(s, b, r)) =>
                    /\ trips' = trips
                    /\ startResp' = startResp
                    /\ StartState(s)' = StartState(s)
          /\ (\E b \in BusIds, r \in RouteIds : HandleStartTrip(s, b, r, FALSE)) =>
                 /\ trips' = trips
                 /\ activeTrip'[s] = Null
                 /\ StartState(s)' = StartState(s)
          /\ StartTripReturn(s, Null) =>
                 /\ trips' = trips
                 /\ StartState(s)' = StartState(s)]_vars

\* the error of a rejected insert is about to be handled: no trip record, no
\* active trip and no timer on the dashboard
StartTripFailureChangesNothingWitness ==
    \E s \in Sessions :
        /\ startResp[s][Null] > 0
        /\ trips = <<>>
        /\ activeTrip[s] = Null
        /\ ~gpsInterval[s]
        /\ intervals[s] = 0
        /\ buses[s] # {}
        /\ routes[s] # {}
====
